---- MODULE Spec2Model ----
(***************************************************************************)
(* A model of mj_envs/envs/env_base.py: the MujocoEnv adapter between a    *)
(* physics simulator and the reset/step interface of an RL environment.    *)
(*                                                                         *)
(* Numbers are integers.  An ndarray is a record [shape, data] whose data  *)
(* is the row-major (ravelled) content.  A dict is a function from its     *)
(* keys; reading a key outside the DOMAIN is Python's KeyError, which the  *)
(* operators below report in the field `err` of the environment record.    *)
(***************************************************************************)
EXTENDS Integers, Sequences, FiniteSets, TLC

\* ------------------------------------------------------------------ bounds
MaxPos == 2      \* joint positions range over 0..MaxPos
MaxTime == 2     \* steps taken since the last simulator reset
MaxAct == 2      \* components of a caller's action range over -MaxAct..MaxAct
MaxPaths == 2    \* trajectories in a batch handed to the methods on paths
PathLen == 2     \* steps of each such trajectory

\* ----------------------------------------------------------------- helpers
Abs(x) == IF x < 0 THEN -x ELSE x

Clamp(x, lo, hi) == IF x < lo THEN lo ELSE IF x > hi THEN hi ELSE x

SeqSum(s) == LET F[i \in 0..Len(s)] == IF i = 0 THEN 0 ELSE F[i - 1] + s[i] IN F[Len(s)]

Min(x, y) == IF x < y THEN x ELSE y

RECURSIVE GCD(_, _)
GCD(x, y) == IF y = 0 THEN x ELSE GCD(y, x % y)

\* The quotient n/d of a float division (d > 0), as a fraction in lowest terms
Frac(n, d) == <<n \div GCD(Abs(n), d), d \div GCD(Abs(n), d)>>

FracAdd(p, q) == Frac(p[1] * q[2] + q[1] * p[2], p[2] * q[2])

FracSum(s) ==
    LET F[i \in 0..Len(s)] == IF i = 0 THEN <<0, 1>> ELSE FracAdd(F[i - 1], s[i])
    IN F[Len(s)]

\* ------------------------------------------------------------------- numpy
\* np.array(xs): a one-dimensional array
Arr(xs) == [shape |-> <<Len(xs)>>, data |-> xs]

\* np.clip(a, lo, hi), componentwise
np_clip(a, lo, hi) == [i \in DOMAIN a |-> Clamp(a[i], lo, hi)]

\* np.squeeze(x): drop the axes of length one
np_squeeze(x) == [shape |-> SelectSeq(x.shape, LAMBDA d : d # 1), data |-> x.data]

\* x[None, None, ...]: two leading axes of length one
np_expand(x) == [shape |-> <<1, 1>> \o x.shape, data |-> x.data]

\* np.sum(x) of a one-dimensional array given by its content
np_sum(xs) == SeqSum(xs)

\* np.mean(x): the sum over the number of elements
np_mean(xs) == Frac(SeqSum(xs), Len(xs))

\* bool(x) of an array of one element
py_bool(x) == x.data[1] # 0

\* ----------------------------------------------------------- the simulator
\* The loaded model: one joint, one actuator.
qpos0 == <<0>>
qvel0 == <<0>>
act0 == <<0>>
site_pos0 == <<1>>
body_pos0 == <<2>>
ctrlrange == <<-1, 1>>     \* actuator_ctrlrange of the one actuator
nq == Len(qpos0)
nv == Len(qvel0)
nu == Len(act0)

jnt_range == <<0, MaxPos>>  \* the range of the one joint
Positions == [1..nq -> jnt_range[1]..jnt_range[2]]
Velocities == [1..nv -> ctrlrange[1]..ctrlrange[2]]
Actions == [1..nu -> -MaxAct..MaxAct]

\* get_sim: MjSim(model), the simulator in the model's default state
get_sim ==
    [qpos |-> qpos0, qvel |-> qvel0, time |-> 0, act |-> act0, udd_state |-> <<>>,
     mocap_pos |-> <<>>, mocap_quat |-> <<>>,
     site_pos |-> site_pos0, body_pos |-> body_pos0,
     site_xpos |-> <<>>, body_xpos |-> <<>>]

\* sim.get_state(): the MjSimState snapshot
sim_get_state(sim) ==
    [time |-> sim.time, qpos |-> sim.qpos, qvel |-> sim.qvel,
     act |-> sim.act, udd_state |-> sim.udd_state]

\* sim.set_state(s): copies the five fields of an MjSimState into the simulator
sim_set_state(sim, s) ==
    [sim EXCEPT !.time = s.time, !.qpos = s.qpos, !.qvel = s.qvel,
                !.act = s.act, !.udd_state = s.udd_state]

\* sim.forward(): recomputes derived quantities; none of the fields kept here
sim_forward(sim) == sim

\* --------------------------------------------------------------- the Robot
\* robot.step: applies the control within the actuator limits and advances
\* the simulator by step_duration; returns the control it applied.  The
\* actuator is a velocity servo and the joint stops at its limits.
robot_step(sim, ctrl_desired) ==
    LET ctrl == [i \in 1..nu |-> Clamp(ctrl_desired[i], ctrlrange[1], ctrlrange[2])]
        vel == [i \in 1..nv |-> ctrl[i]]
        pos == [i \in 1..nq |-> Clamp(sim.qpos[i] + vel[i], jnt_range[1], jnt_range[2])]
    IN [sim |-> [sim EXCEPT !.qpos = pos, !.qvel = vel, !.act = ctrl,
                            !.time = sim.time + 1],
        ctrl |-> ctrl]

\* robot.reset(qpos, qvel): resets the simulator and sets the pose and velocity
robot_reset(sim, qpos, qvel) ==
    [sim EXCEPT !.qpos = qpos, !.qvel = qvel, !.time = 0, !.act = act0]

\* robot.get_sensors()
robot_get_sensors(sim) == [time |-> sim.time, qpos |-> sim.qpos, qvel |-> sim.qvel]

\* robot.sensor2sim(sen, sim_obsd): writes the readings into the observed sim
robot_sensor2sim(sen, sim_obsd) ==
    [sim_obsd EXCEPT !.time = sen.time, !.qpos = sen.qpos, !.qvel = sen.qvel]

\* -------------------------------------------------------------- ObsVecDict
Concat(d, keys) ==
    LET F[i \in 0..Len(keys)] == IF i = 0 THEN <<>> ELSE F[i - 1] \o d[keys[i]].data
    IN F[Len(keys)]

\* obsdict2obsvec(obs_dict, ordered_obs_keys): the arrays of the keys, ravelled
\* and concatenated in the order of the keys, and obs_dict['t']
obsdict2obsvec(obs_dict, keys) ==
    IF \A i \in DOMAIN keys : keys[i] \in DOMAIN obs_dict
    THEN IF "t" \in DOMAIN obs_dict
         THEN [err |-> "", t |-> obs_dict["t"], obs |-> Concat(obs_dict, keys)]
         ELSE [err |-> "KeyError", t |-> <<>>, obs |-> <<>>]
    ELSE [err |-> "KeyError", t |-> <<>>, obs |-> <<>>]

\* expand_dims(d): every entry gets the leading axes of a batch of paths
expand_dims(d) == [k \in DOMAIN d |-> np_expand(d[k])]

\* squeeze_dims(d): every entry is squeezed
squeeze_dims(d) == [k \in DOMAIN d |-> np_squeeze(d[k])]

\* ------------------------------------------------- the subclass's two hooks
\* MujocoEnv leaves get_obs_dict and get_reward_dict to its subclasses.  The
\* subclasses modelled here observe time, pose and velocity, reward the joint
\* for being at position 0 and end the episode at the far joint limit; a subclass is described by the keys its
\* hooks put into the two dictionaries (obs_supplied, rwd_supplied).
ObsKeys == {"t", "qpos", "qvel"}
RequiredRwdKeys == {"dense", "sparse", "solved", "done"}

get_obs_dict(e, sim) ==
    LET full == [k \in ObsKeys |->
                    IF k = "t" THEN Arr(<<sim.time>>)
                    ELSE IF k = "qpos" THEN Arr(sim.qpos) ELSE Arr(sim.qvel)]
    IN [k \in e.obs_supplied |-> full[k]]

get_reward_dict(e, obs_dict) ==
    IF "qpos" \notin DOMAIN obs_dict
    THEN [err |-> "KeyError", val |-> <<>>]
    ELSE LET q == obs_dict["qpos"].data[1]
             solved == q = 0
             far == q >= jnt_range[2]
             val(k) == IF k = "dense" THEN -Abs(q)
                       ELSE IF k = "sparse"
                            THEN (IF solved THEN 1 ELSE 0) - (IF far THEN 1 ELSE 0)
                       ELSE IF k = "solved" THEN (IF solved THEN 1 ELSE 0)
                       ELSE (IF far THEN 1 ELSE 0)
         IN [err |-> "",
             val |-> [k \in e.rwd_supplied |-> np_expand(Arr(<<val(k)>>))]]

\* --------------------------------------------------------------- MujocoEnv
\* The environment object: its fields, and the outcome of the last call on it
\* (err: the exception raised, "" for none; out: the value returned).
None == <<>>

Raise(e, exc) == [e EXCEPT !.err = exc, !.out = None]

Return(e, v) == [e EXCEPT !.err = "", !.out = v]

\* Mutant of get_obs: the observed sim is not refreshed from the sensors
get_obs_stale(e) ==
    LET od == get_obs_dict(e, e.sim_obsd)
        e1 == [e EXCEPT !.obs_dict = od]
        tv == obsdict2obsvec(od, e.obs_keys)
    IN IF tv.err # "" THEN Raise(e1, tv.err) ELSE Return(e1, tv.obs)

\* get_obs: sensors -> observed sim -> obs_dict -> observation vector
get_obs(e) ==
    LET sen == robot_get_sensors(e.sim)
        obsd == robot_sensor2sim(sen, e.sim_obsd)
        od == get_obs_dict(e, obsd)
        e1 == [e EXCEPT !.sim_obsd = obsd, !.obs_dict = od]
        tv == obsdict2obsvec(od, e.obs_keys)
    IN IF tv.err # "" THEN Raise(e1, tv.err) ELSE Return(e1, tv.obs)

\* Mutant of get_env_infos: 'done' is read from the 'dense' entry
get_env_infos_doneFromDense(e) ==
    IF "t" \notin DOMAIN e.obs_dict \/ ~(RequiredRwdKeys \subseteq DOMAIN e.rwd_dict)
    THEN Raise(e, "KeyError")
    ELSE Return(e, [time |-> e.obs_dict["t"],
                    rwd_dense |-> e.rwd_dict["dense"],
                    rwd_sparse |-> e.rwd_dict["sparse"],
                    solved |-> e.rwd_dict["solved"],
                    done |-> e.rwd_dict["dense"],
                    obs_dict |-> e.obs_dict,
                    rwd_dict |-> e.rwd_dict])

\* Mutant of get_env_infos: a missing entry is read as zero (dict.get)
get_env_infos_defaults(e) ==
    LET zero == [shape |-> <<>>, data |-> <<0>>]
        rwd(k) == IF k \in DOMAIN e.rwd_dict THEN e.rwd_dict[k] ELSE zero
    IN Return(e, [time |-> IF "t" \in DOMAIN e.obs_dict THEN e.obs_dict["t"] ELSE zero,
                  rwd_dense |-> rwd("dense"),
                  rwd_sparse |-> rwd("sparse"),
                  solved |-> rwd("solved"),
                  done |-> rwd("done"),
                  obs_dict |-> e.obs_dict,
                  rwd_dict |-> e.rwd_dict])

\* get_env_infos: the info dictionary, from obs_dict and rwd_dict as they are
get_env_infos(e) ==
    IF "t" \notin DOMAIN e.obs_dict \/ ~(RequiredRwdKeys \subseteq DOMAIN e.rwd_dict)
    THEN Raise(e, "KeyError")
    ELSE Return(e, [time |-> e.obs_dict["t"],
                    rwd_dense |-> e.rwd_dict["dense"],
                    rwd_sparse |-> e.rwd_dict["sparse"],
                    solved |-> e.rwd_dict["solved"],
                    done |-> e.rwd_dict["done"],
                    obs_dict |-> e.obs_dict,
                    rwd_dict |-> e.rwd_dict])

\* Mutant of ctrl_desired: the action is handed over as given
ctrl_desired_unclipped(a) == a

\* The control step hands to the Robot
ctrl_desired(a) == np_clip(a, -1, 1)

\* step(a)
step(e, a) ==
    LET r == robot_step(e.sim, ctrl_desired(a))
        e1 == [e EXCEPT !.sim = r.sim, !.last_ctrl = r.ctrl]
        e2 == get_obs(e1)
        obs == e2.out
        e3 == [e2 EXCEPT !.obs_dict = expand_dims(e2.obs_dict)]
        rd == get_reward_dict(e3, e3.obs_dict)
        e4 == [e3 EXCEPT !.rwd_dict = rd.val]
        e5 == [e4 EXCEPT !.rwd_dict = squeeze_dims(e4.rwd_dict),
                         !.obs_dict = squeeze_dims(e4.obs_dict)]
        e6 == get_env_infos(e5)
        env_info == e6.out
        key == "rwd_" \o e.rwd_mode
    IN IF e2.err # "" THEN e2
       ELSE IF rd.err # "" THEN Raise(e3, rd.err)
       ELSE IF e6.err # "" THEN e6
       ELSE IF key \notin DOMAIN env_info THEN Raise(e6, "KeyError")
       ELSE Return(e6, [obs |-> obs, reward |-> env_info[key],
                        done |-> py_bool(env_info["done"]), info |-> env_info])

\* Mutant of reset: without arguments, the current pose and velocity are kept
reset_fromCurrent(e, reset_qpos, reset_qvel) ==
    LET qpos == IF reset_qpos = None THEN e.sim.qpos ELSE reset_qpos
        qvel == IF reset_qvel = None THEN e.sim.qvel ELSE reset_qvel
        e1 == [e EXCEPT !.sim = robot_reset(e.sim, qpos, qvel)]
    IN get_obs(e1)

\* Mutant of reset: the time is returned in front of the observation
reset_withTime(e, reset_qpos, reset_qvel) ==
    LET qpos == IF reset_qpos = None THEN e.init_qpos ELSE reset_qpos
        qvel == IF reset_qvel = None THEN e.init_qvel ELSE reset_qvel
        e1 == [e EXCEPT !.sim = robot_reset(e.sim, qpos, qvel)]
        e2 == get_obs(e1)
    IN IF e2.err # "" THEN e2 ELSE Return(e2, e2.obs_dict["t"].data \o e2.out)

\* Mutant of reset: the reward dictionary is emptied
reset_clearsRwd(e, reset_qpos, reset_qvel) ==
    LET qpos == IF reset_qpos = None THEN e.init_qpos ELSE reset_qpos
        qvel == IF reset_qvel = None THEN e.init_qvel ELSE reset_qvel
        e1 == [e EXCEPT !.sim = robot_reset(e.sim, qpos, qvel), !.rwd_dict = <<>>]
    IN get_obs(e1)

\* reset(reset_qpos, reset_qvel); None for an argument left out
reset(e, reset_qpos, reset_qvel) ==
    LET qpos == IF reset_qpos = None THEN e.init_qpos ELSE reset_qpos
        qvel == IF reset_qvel = None THEN e.init_qvel ELSE reset_qvel
        e1 == [e EXCEPT !.sim = robot_reset(e.sim, qpos, qvel)]
    IN get_obs(e1)

\* Mutant of set_state: pose and velocity change places in the new state
set_state_swapped(e, qpos, qvel) ==
    IF ~(Len(qpos) = nq /\ Len(qvel) = nv)
    THEN Raise(e, "AssertionError")
    ELSE LET old_state == sim_get_state(e.sim)
             new_state == [time |-> old_state.time, qpos |-> qvel, qvel |-> qpos,
                           act |-> old_state.act, udd_state |-> old_state.udd_state]
         IN Return([e EXCEPT !.sim = sim_forward(sim_set_state(e.sim, new_state))],
                   None)

\* set_state(qpos, qvel)
set_state(e, qpos, qvel) ==
    IF ~(Len(qpos) = nq /\ Len(qvel) = nv)
    THEN Raise(e, "AssertionError")
    ELSE LET old_state == sim_get_state(e.sim)
             new_state == [time |-> old_state.time, qpos |-> qpos, qvel |-> qvel,
                           act |-> old_state.act, udd_state |-> old_state.udd_state]
         IN Return([e EXCEPT !.sim = sim_forward(sim_set_state(e.sim, new_state))],
                   None)

\* get_env_state()
get_env_state(e) ==
    [qpos |-> e.sim.qpos, qvel |-> e.sim.qvel,
     mocap_pos |-> e.sim.mocap_pos, mocap_quat |-> e.sim.mocap_quat,
     site_pos |-> e.sim.site_pos, body_pos |-> e.sim.body_pos]

\* set_env_state(state_dict).  The dictionary's site_pos and body_pos go to
\* sim.model's site_xpos and body_xpos, not to the site_pos and body_pos that
\* get_env_state reads.
set_env_state(e, state_dict) ==
    LET e1 == set_state(e, state_dict["qpos"], state_dict["qvel"])
    IN IF e1.err # "" THEN e1
       ELSE Return([e1 EXCEPT !.sim = sim_forward(
                        [e1.sim EXCEPT !.site_xpos = state_dict["site_pos"],
                                       !.body_xpos = state_dict["body_pos"]])],
                   None)

\* -------------------------------------------------------- methods on paths
\* horizon: spec.max_episode_steps of the registered environment
horizon == PathLen

\* path[key][:n, ...]
Cut(x, n) == SubSeq(x, 1, Min(n, Len(x)))

\* The body of truncate_paths' loop, for one path: the path as the body
\* leaves it, and what it raised.  The keys are visited in the order of their
\* insertion, 'terminated' (a bool, which cannot be sliced) last.
truncate_path(path, hor) ==
    LET done == path["done"]
        n == Len(done)
    IN IF done[n] = FALSE
       THEN [err |-> "",
             path |-> [k \in DOMAIN path \cup {"terminated"} |->
                          IF k = "terminated" THEN FALSE ELSE path[k]]]
       ELSE IF done[1] = FALSE
       THEN LET terminated_idx == np_sum([i \in 1..n |-> IF done[i] THEN 0 ELSE 1]) + 1
                cut == [k \in DOMAIN path |->
                           IF k = "terminated" THEN path[k]
                           ELSE Cut(path[k], terminated_idx + 1)]
            IN IF "terminated" \in DOMAIN path
               THEN [err |-> "TypeError", path |-> cut]
               ELSE [err |-> "",
                     path |-> [k \in DOMAIN path \cup {"terminated"} |->
                                  IF k = "terminated" THEN TRUE ELSE cut[k]]]
       ELSE [err |-> "", path |-> path]

\* truncate_paths(paths): the paths are truncated in place, one after the
\* other, and returned; `paths` is the batch as the call leaves it
truncate_paths(e, paths) ==
    LET hor == Len(paths[1]["rewards"])
        loop[i \in 0..Len(paths)] ==
            IF i = 0 THEN [err |-> "", paths |-> paths]
            ELSE IF loop[i - 1].err # "" THEN loop[i - 1]
            ELSE IF "done" \notin DOMAIN paths[i]
            THEN [err |-> "KeyError", paths |-> loop[i - 1].paths]
            ELSE [err |-> truncate_path(paths[i], hor).err,
                  paths |-> [loop[i - 1].paths EXCEPT ![i] = truncate_path(paths[i], hor).path]]
    IN IF paths = <<>>
       THEN [Raise(e, "IndexError") EXCEPT !.paths = paths]
       ELSE IF "rewards" \notin DOMAIN paths[1]
       THEN [Raise(e, "KeyError") EXCEPT !.paths = paths]
       ELSE IF loop[Len(paths)].err # ""
       THEN [Raise(e, loop[Len(paths)].err) EXCEPT !.paths = loop[Len(paths)].paths]
       ELSE [Return(e, loop[Len(paths)].paths) EXCEPT !.paths = loop[Len(paths)].paths]

\* Mutant of evaluate_success: a path solved for exactly successful_steps
\* steps counts as a success
evaluate_success_atLeast(e, paths, has_logger, successful_steps) ==
    LET num_paths == Len(paths)
        count[i \in 0..num_paths] ==
            IF i = 0 THEN 0
            ELSE count[i - 1] +
                 (IF np_sum(paths[i]["env_infos"]["solved"]) >= successful_steps THEN 1 ELSE 0)
        success_percentage == Frac(count[num_paths] * 100, num_paths)
    IN IF \E i \in DOMAIN paths : "env_infos" \notin DOMAIN paths[i]
       THEN [Raise(e, "KeyError") EXCEPT !.logger = <<>>]
       ELSE IF num_paths = 0
       THEN [Raise(e, "ZeroDivisionError") EXCEPT !.logger = <<>>]
       ELSE [Return(e, success_percentage) EXCEPT !.logger =
                IF has_logger THEN <<<<"success_percentage", success_percentage>>>> ELSE <<>>]

\* evaluate_success(paths, logger, successful_steps); the logger is given by
\* has_logger, and the record yielded says in `logger` what it was given to log
evaluate_success(e, paths, has_logger, successful_steps) ==
    LET num_paths == Len(paths)
        count[i \in 0..num_paths] ==
            IF i = 0 THEN 0
            ELSE count[i - 1] +
                 (IF np_sum(paths[i]["env_infos"]["solved"]) > successful_steps THEN 1 ELSE 0)
        num_success == count[num_paths]
        success_percentage == Frac(num_success * 100, num_paths)
        rwd_sparse ==
            LET m == FracSum([i \in 1..num_paths |-> np_mean(paths[i]["env_infos"]["rwd_sparse"])])
            IN Frac(m[1], m[2] * num_paths)
        rwd_dense ==
            LET m == FracSum([i \in 1..num_paths |->
                                Frac(np_sum(paths[i]["env_infos"]["rwd_dense"]), horizon)])
            IN Frac(m[1], m[2] * num_paths)
    IN IF \E i \in DOMAIN paths : "env_infos" \notin DOMAIN paths[i]
       THEN [Raise(e, "KeyError") EXCEPT !.logger = <<>>]
       ELSE IF num_paths = 0
       THEN [Raise(e, "ZeroDivisionError") EXCEPT !.logger = <<>>]
       ELSE [Return(e, success_percentage) EXCEPT !.logger =
                IF has_logger
                THEN <<<<"rwd_sparse", rwd_sparse>>, <<"rwd_dense", rwd_dense>>,
                       <<"success_percentage", success_percentage>>>>
                ELSE <<>>]

\* ------------------------------------------------------------------- state
VARIABLES
    pc,                 \* "new": before __init__; "ready": constructed; "failed"
    rwd_mode, obs_keys, \* constructor arguments
    rwd_supplied, obs_supplied,   \* the subclass: the keys its hooks supply
    sim, sim_obsd,      \* true and observed simulator
    obs_dict, rwd_dict, last_ctrl,
    obs_dim, observation_space, init_qpos, init_qvel,
    call,               \* the last call made on the environment, with its arguments
    err, out,           \* what that call raised ("" for nothing) and returned
    logger,             \* what the logger handed to that call was given to log
    paths               \* the batch of paths the caller holds

vars == <<pc, rwd_mode, obs_keys, rwd_supplied, obs_supplied, sim, sim_obsd,
          obs_dict, rwd_dict, last_ctrl, obs_dim, observation_space,
          init_qpos, init_qvel, call, err, out, logger, paths>>

\* The environment object as the operators above take it
Self ==
    [rwd_mode |-> rwd_mode, obs_keys |-> obs_keys,
     rwd_supplied |-> rwd_supplied, obs_supplied |-> obs_supplied,
     sim |-> sim, sim_obsd |-> sim_obsd,
     obs_dict |-> obs_dict, rwd_dict |-> rwd_dict, last_ctrl |-> last_ctrl,
     init_qpos |-> init_qpos, init_qvel |-> init_qvel,
     err |-> err, out |-> out, logger |-> logger, paths |-> paths]

\* The fields a call may write, taken from the record it yields
Commit(r) ==
    /\ sim' = r.sim
    /\ sim_obsd' = r.sim_obsd
    /\ obs_dict' = r.obs_dict
    /\ rwd_dict' = r.rwd_dict
    /\ last_ctrl' = r.last_ctrl
    /\ err' = r.err
    /\ out' = r.out

Call(op, args) == [op |-> op, args |-> args]

\* obs_range, the default of __init__
obs_range == <<-10, 10>>

\* spaces.Box(low*ones(n), high*ones(n))
Box(low, high, n) == [low |-> [i \in 1..n |-> low], high |-> [i \in 1..n |-> high]]

\* The subclasses and constructor arguments tried
Subclasses ==
    {[rwd |-> RequiredRwdKeys, obs |-> ObsKeys]}
    \cup {[rwd |-> RequiredRwdKeys \ {k}, obs |-> ObsKeys] : k \in RequiredRwdKeys}
    \cup {[rwd |-> RequiredRwdKeys, obs |-> ObsKeys \ {"t"}]}

\* <<rwd_mode, obs_keys>>
ConstructorArgs == {<<"dense", <<"qpos", "qvel">>>>, <<"sparse", <<"qvel", "qpos", "t">>>>}

\* __init__ up to the step it takes: lines 54-88
InitEnv ==
    /\ pc = "new"
    /\ \E args \in ConstructorArgs : rwd_mode = args[1] /\ obs_keys = args[2]
    /\ \E c \in Subclasses : rwd_supplied = c.rwd /\ obs_supplied = c.obs
    /\ sim = get_sim
    /\ sim_obsd = get_sim
    /\ obs_dict = <<>>
    /\ rwd_dict = <<>>
    /\ last_ctrl = None
    /\ obs_dim = 0
    /\ observation_space = None
    /\ init_qpos = None
    /\ init_qvel = None
    /\ call = Call("new", None)
    /\ logger = <<>>
    /\ err = ""
    /\ out = None

\* The rest of __init__: the step that sizes the observation, the check that
\* the simulation does not start done, and the recording of the initial state
Construct ==
    /\ pc = "new"
    /\ \E a \in {[i \in 1..nu |-> 0]} : \E r \in {step(Self, a)} :
          /\ call' = Call("__init__", [a |-> a])
          /\ IF r.err # ""
             THEN /\ Commit(r)
                  /\ pc' = "failed"
                  /\ UNCHANGED <<obs_dim, observation_space, init_qpos, init_qvel>>
             ELSE IF r.out.done
             THEN /\ Commit(Raise(r, "AssertionError"))
                  /\ pc' = "failed"
                  /\ UNCHANGED <<obs_dim, observation_space, init_qpos, init_qvel>>
             ELSE /\ Commit(Return(r, None))
                  /\ pc' = "ready"
                  /\ obs_dim' = Len(r.out.obs)
                  /\ observation_space' = Box(obs_range[1], obs_range[2], Len(r.out.obs))
                  /\ init_qpos' = r.sim.qpos
                  /\ init_qvel' = r.sim.qvel
    /\ UNCHANGED <<rwd_mode, obs_keys, rwd_supplied, obs_supplied, logger, paths>>

Frame == UNCHANGED <<pc, rwd_mode, obs_keys, rwd_supplied, obs_supplied,
                     obs_dim, observation_space, init_qpos, init_qvel>>

\* The calls on the simulation hand no logger over
EnvFrame == Frame /\ UNCHANGED <<logger, paths>>

Step ==
    /\ pc = "ready"
    /\ sim.time < MaxTime
    /\ \E a \in Actions : \E r \in {step(Self, a)} :
          /\ Commit(r)
          /\ call' = Call("step", [a |-> a])
    /\ EnvFrame

\* Arguments of reset: none, a pose only, a velocity only, or both
ResetArgs ==
    {<<None, None>>} \cup (Positions \X Velocities)
    \cup {<<qp, None>> : qp \in Positions} \cup {<<None, qv>> : qv \in Velocities}

Reset ==
    /\ pc = "ready"
    /\ \E args \in ResetArgs : \E r \in {reset(Self, args[1], args[2])} :
          /\ Commit(r)
          /\ call' = Call("reset", [reset_qpos |-> args[1], reset_qvel |-> args[2]])
    /\ EnvFrame

\* Arguments of set_state: every pose and velocity of the right shape, and
\* a pose of the wrong shape
SetStateArgs == (Positions \X Velocities) \cup {<<qpos0 \o qpos0, qvel0>>}

SetState ==
    /\ pc = "ready"
    /\ \E args \in SetStateArgs : \E r \in {set_state(Self, args[1], args[2])} :
          /\ Commit(r)
          /\ call' = Call("set_state", [qpos |-> args[1], qvel |-> args[2]])
    /\ EnvFrame

\* The dictionaries get_env_state can return
EnvStateDicts ==
    {get_env_state([sim |-> [get_sim EXCEPT !.qpos = qp, !.qvel = qv]]) :
        qp \in Positions, qv \in Velocities}

SetEnvState ==
    /\ pc = "ready"
    /\ \E state_dict \in EnvStateDicts : \E r \in {set_env_state(Self, state_dict)} :
          /\ Commit(r)
          /\ call' = Call("set_env_state", [state_dict |-> state_dict])
    /\ EnvFrame

\* The caller holds no paths
Init == InitEnv /\ paths = <<>>

Next == Construct \/ Step \/ Reset \/ SetState \/ SetEnvState

Spec == Init /\ [][Next]_vars

\* ------------------------------------------------------ batches of paths
\* The lists of at most MaxPaths elements of S
Lists(S) == UNION {[1..n -> S] : n \in 0..MaxPaths}

\* A rollout as truncate_paths takes it: its arrays hold the index of their
\* step, so that what is cut away shows
RolloutPath(done) ==
    [k \in {"observations", "actions", "rewards", "done"} |->
        IF k = "done" THEN done ELSE [i \in 1..Len(done) |-> i]]

\* A rollout as evaluate_success takes it, from its per-step solved flags; the
\* rewards are those of the subclass above with the joint at 0 or 1
EvaluatedPath(solved) ==
    [env_infos |-> [solved |-> solved,
                    rwd_sparse |-> [i \in 1..Len(solved) |-> 2 * solved[i] - 1],
                    rwd_dense |-> [i \in 1..Len(solved) |-> solved[i] - 1]]]

\* The batches a caller may hold
Batches ==
    {[i \in DOMAIN dones |-> RolloutPath(dones[i])] :
        dones \in Lists([1..PathLen -> BOOLEAN])}
    \cup {[i \in DOMAIN flags |-> EvaluatedPath(flags[i])] :
        flags \in Lists([1..PathLen -> {0, 1}])}

\* An environment of a subclass that supplies every key, with the default
\* rwd_mode, and a batch
InitPaths ==
    /\ InitEnv
    /\ rwd_mode = "dense"
    /\ rwd_supplied = RequiredRwdKeys
    /\ obs_supplied = ObsKeys
    /\ paths \in Batches

TruncatePaths ==
    /\ pc = "ready"
    /\ \E r \in {truncate_paths(Self, paths)} :
          /\ out' = r.out
          /\ err' = r.err
          /\ paths' = r.paths
          /\ call' = Call("truncate_paths", [paths |-> paths])
    /\ UNCHANGED <<sim, sim_obsd, obs_dict, rwd_dict, last_ctrl, logger>>
    /\ Frame

EvaluateSuccess ==
    /\ pc = "ready"
    /\ \E has_logger \in BOOLEAN, successful_steps \in 0..PathLen :
       \E r \in {evaluate_success(Self, paths, has_logger, successful_steps)} :
          /\ out' = r.out
          /\ err' = r.err
          /\ logger' = r.logger
          /\ call' = Call("evaluate_success",
                          [paths |-> paths, logger |-> has_logger,
                           successful_steps |-> successful_steps])
    /\ UNCHANGED <<sim, sim_obsd, obs_dict, rwd_dict, last_ctrl, paths>>
    /\ Frame

NextPaths == Construct \/ TruncatePaths \/ EvaluateSuccess

SpecPaths == InitPaths /\ [][NextPaths]_vars

\* ------------------------------------------------------------------ claims
\* clip(a, -1, 1), as the claims state it
Clipped(a) == [i \in DOMAIN a |-> IF a[i] > 1 THEN 1 ELSE IF a[i] < -1 THEN -1 ELSE a[i]]

\* C1: whenever step returns, the done flag it returns is true only if the
\* 'done' entry of the reward dictionary computed in that step, from that
\* step's observation dictionary, is true; and the reward it returns is that
\* dictionary's entry for rwd_mode.
C1_DoneOnlyWhenRwdDone ==
    (call.op = "step" /\ err = "") =>
        /\ rwd_dict = squeeze_dims(get_reward_dict(Self, expand_dims(obs_dict)).val)
        /\ out.done => rwd_dict["done"].data[1] # 0
        /\ out.reward = rwd_dict[rwd_mode]

\* A step has returned done = True, under the sparse reward
C1_Witness ==
    call.op = "step" /\ err = "" /\ out.done /\ rwd_mode = "sparse"

\* C2: in every state of a constructed environment and for every action a,
\* step hands clip(a, -1, 1) to the Robot, and step(a) and step(clip(a, -1, 1))
\* leave the same state and return the same observation, reward, done and info.
C2_ClipBeforeRobot ==
    pc = "ready" =>
        \A a \in Actions :
            /\ ctrl_desired(a) = Clipped(a)
            /\ step(Self, a) = step(Self, Clipped(a))

\* A step was taken with an action above 1, and the joint moved as under 1
C2_Witness ==
    /\ call.op = "step" /\ err = ""
    /\ call.args.a[1] = MaxAct /\ MaxAct > 1
    /\ last_ctrl = Clipped(call.args.a)

\* C3: the initial pose and velocity recorded at construction stay as
\* recorded, and after reset() without arguments get_env_state() yields them.
C3_ResetRestoresInit ==
    pc = "ready" =>
        /\ init_qpos = robot_step(get_sim, Clipped([i \in 1..nu |-> 0])).sim.qpos
        /\ init_qvel = robot_step(get_sim, Clipped([i \in 1..nu |-> 0])).sim.qvel
        /\ (call.op = "reset" /\ err = ""
              /\ call.args.reset_qpos = None /\ call.args.reset_qvel = None)
            => /\ get_env_state(Self).qpos = init_qpos
               /\ get_env_state(Self).qvel = init_qvel

\* reset() was called after a step had driven the joint to its limit
C3_Witness ==
    /\ call.op = "reset" /\ err = ""
    /\ call.args.reset_qpos = None /\ call.args.reset_qvel = None
    /\ rwd_dict["done"].data[1] = 1
    /\ sim.qpos = init_qpos

\* C4: after set_state(qpos, qvel) with arrays of the right shape, and after
\* set_env_state of a dictionary get_env_state can return, get_env_state()
\* returns that qpos and qvel; set_state leaves time, act and udd_state alone.
C4_SetStateRoundTrip ==
    [][/\ (call'.op = "set_state" /\ err' = "") =>
             /\ get_env_state(Self)'.qpos = call'.args.qpos
             /\ get_env_state(Self)'.qvel = call'.args.qvel
             /\ sim'.time = sim.time
             /\ sim'.act = sim.act
             /\ sim'.udd_state = sim.udd_state
       /\ (call'.op = "set_env_state" /\ err' = "") =>
             /\ get_env_state(Self)'.qpos = call'.args.state_dict["qpos"]
             /\ get_env_state(Self)'.qvel = call'.args.state_dict["qvel"]
      ]_vars

\* set_state has moved the joint away from where it was last observed, late
\* in an episode and with the actuator active
C4_Witness ==
    /\ call.op = "set_state" /\ err = ""
    /\ sim.qpos # sim_obsd.qpos /\ sim.qvel # sim.qpos
    /\ sim.time = MaxTime /\ sim.act # act0

\* The steps of a path at which it is solved
SolvedSteps(path) ==
    {t \in DOMAIN path["env_infos"]["solved"] : path["env_infos"]["solved"][t] = 1}

C6_MissingKeysFailFast ==
    (/\ call.op \in {"step", "__init__"}
     /\ (~(RequiredRwdKeys \subseteq DOMAIN rwd_dict) \/ "t" \notin DOMAIN obs_dict))
    => /\ err = "KeyError"
       /\ out = None
       /\ call.op = "__init__" => pc = "failed"

\* The step of __init__ failed on a reward dictionary without 'done'
C6_Witness ==
    /\ pc = "failed" /\ err = "KeyError"
    /\ DOMAIN rwd_dict = RequiredRwdKeys \ {"done"}
    /\ sim.time = 1

\* C7: a step that returns has advanced the simulator once, by the clipped
\* action; the observed simulator, the observation dictionary and the returned
\* observation are those of the simulator after the advance, and the reward
\* dictionary is computed from that observation dictionary; the info holds both.
C7_StepOrder ==
    [][(call'.op = "step" /\ err' = "") =>
          /\ sim' = robot_step(sim, Clipped(call'.args.a)).sim
          /\ last_ctrl' = robot_step(sim, Clipped(call'.args.a)).ctrl
          /\ sim_obsd' = robot_sensor2sim(robot_get_sensors(sim'), sim_obsd)
          /\ obs_dict' = squeeze_dims(get_obs_dict(Self, sim_obsd'))
          /\ rwd_dict' = squeeze_dims(
                 get_reward_dict(Self, expand_dims(get_obs_dict(Self, sim_obsd'))).val)
          /\ out'.obs = obsdict2obsvec(get_obs_dict(Self, sim_obsd'), obs_keys).obs
          /\ out'.info.obs_dict = obs_dict'
          /\ out'.info.rwd_dict = rwd_dict'
      ]_vars

\* A step late in an episode, with the joint away from its initial pose
C7_Witness ==
    /\ call.op = "step" /\ err = ""
    /\ sim.time = MaxTime /\ sim.time > 1
    /\ sim.qpos # init_qpos /\ sim_obsd.qpos = sim.qpos

\* C8: obs_dim and observation_space do not change once the environment is
\* constructed, the space has obs_dim components, and the observations step
\* and reset return have obs_dim components.
C8_ObsSizeFixed ==
    [][/\ pc = "ready" => (obs_dim' = obs_dim /\ observation_space' = observation_space)
       /\ pc' = "ready" =>
             /\ Len(observation_space'.low) = obs_dim'
             /\ Len(observation_space'.high) = obs_dim'
             /\ (call'.op = "step" /\ err' = "") => Len(out'.obs) = obs_dim'
             /\ (call'.op = "reset" /\ err' = "") => Len(out') = obs_dim'
      ]_vars

\* reset has returned an observation of the three configured keys
C8_Witness ==
    /\ call.op = "reset" /\ err = ""
    /\ Len(obs_keys) = 3 /\ Len(out) = obs_dim /\ obs_dim = 3

\* The first step at which a path is done
FirstDone(done) == CHOOSE i \in DOMAIN done : done[i] /\ \A j \in 1..(i - 1) : ~done[j]

\* C9: truncate_paths leaves every path with a 'terminated' entry; a path whose
\* last done entry is false keeps its length and is marked terminated = False,
\* every other path is cut to end at its first done step and is marked
\* terminated = True.
C9_TruncateAtFirstDone ==
    (call.op = "truncate_paths" /\ err = "") =>
        \A i \in DOMAIN out :
            LET before == call.args.paths[i]
                done == before["done"]
            IN /\ "terminated" \in DOMAIN out[i]
               /\ IF ~done[Len(done)]
                  THEN /\ out[i]["terminated"] = FALSE
                       /\ \A k \in DOMAIN before \ {"terminated"} : out[i][k] = before[k]
                  ELSE /\ out[i]["terminated"] = TRUE
                       /\ \A k \in DOMAIN before \ {"terminated"} :
                             out[i][k] = SubSeq(before[k], 1, FirstDone(done))

\* C10: a reset that returns leaves rwd_dict as it was and rebuilds obs_dict
\* from the reset simulator, so that get_env_infos then reports the time of
\* the new observation beside the rewards, solved and done of the last step.
C10_ResetKeepsRwdDict ==
    [][(call'.op = "reset" /\ err' = "") =>
          /\ rwd_dict' = rwd_dict
          /\ sim_obsd' = robot_sensor2sim(robot_get_sensors(sim'), sim_obsd)
          /\ obs_dict' = get_obs_dict(Self, sim_obsd')
          /\ get_env_infos(Self)'.err = ""
          /\ get_env_infos(Self)'.out.time = Arr(<<sim'.time>>)
          /\ get_env_infos(Self)'.out.rwd_dense = rwd_dict["dense"]
          /\ get_env_infos(Self)'.out.rwd_sparse = rwd_dict["sparse"]
          /\ get_env_infos(Self)'.out.solved = rwd_dict["solved"]
          /\ get_env_infos(Self)'.out.done = rwd_dict["done"]
      ]_vars

\* After a reset to a pose away from 0, the info would still say solved
C10_Witness ==
    /\ call.op = "reset" /\ err = ""
    /\ sim.qpos # qpos0 /\ obs_dict["t"].data = <<0>>
    /\ get_env_infos(Self).out.solved.data = <<1>>

====
